---- MODULE Spec2Model ----
(***************************************************************************)
(* A model of src/auth_jwt.go: the JWTMiddleware of                        *)
(* go-json-rest-middleware-jwt.  One action per exported operation         *)
(* (MiddlewareFunc, the gate middlewareImpl, LoginHandler, RefreshHandler) *)
(* plus the passage of time.                                               *)
(*                                                                         *)
(* Time is counted in whole seconds, the granularity of time.Unix(); the   *)
(* durations Timeout and MaxRefresh are whole numbers of seconds.  Every   *)
(* call of time.Now() is a separate reading of the clock: two readings in  *)
(* one handler are ordered, and the later one may fall in the next second. *)
(*                                                                         *)
(* A token string is modelled by what it encodes: its claims, the          *)
(* algorithm of its header and the key bytes its signature was made with   *)
(* (a signature verifies under a key iff it was made with that key).  Two  *)
(* tokens with equal claims, algorithm and key are the same string, as     *)
(* with the deterministic encoding and HMAC signature of jwt-go.           *)
(***************************************************************************)
EXTENDS Integers, Sequences, FiniteSets, TLC

VARIABLES
    mw,      \* the JWTMiddleware struct: the configuration
    phase,   \* "setup" before serving; "gated" once MiddlewareFunc wrapped
             \* the handlers; "open" when only LoginHandler and
             \* RefreshHandler are routed; "fatal" after log.Fatal
    now,     \* the clock, in seconds
    issued,  \* history: the tokens minted so far, each with the user and
             \* the time of the login its session began with
    last     \* the request being answered: its input, the clock readings
             \* of its handler and what the handler did

vars == <<mw, phase, now, issued, last>>

(***************************************************************************)
(* Bounds of the model.                                                    *)
(***************************************************************************)
MaxTime == 3
MaxIssued == 2

(***************************************************************************)
(* Values.                                                                 *)
(***************************************************************************)
\* time.Hour, in a model whose clock runs 0..MaxTime: the default Timeout,
\* larger than every explicitly configured Timeout of the model.
Hour == 3

Nil == "nil"

\* A Key that is not nil and holds no bytes: []byte("").
EmptyKey == ""

Users == {"alice", "bob"}

Passwords == {"secret", "wrong"}

\* A claim that is not in the claims map; a claim that holds a JSON value of
\* another type than the one the code asserts.
NoId == "<absent>"

NumId == "<number>"

NoNum == -1

\* The bytes of a Key: a nil slice holds no bytes.
KeyBytes(k) == IF k = Nil THEN "" ELSE k

HmacAlgs == {"HS256", "HS384", "HS512"}

Token(id, exp, iat, alg, key) ==
    [id |-> id, exp |-> exp, orig_iat |-> iat, alg |-> alg, sig |-> KeyBytes(key)]

NoToken == [id |-> NoId, exp |-> NoNum, orig_iat |-> NoNum, alg |-> "", sig |-> ""]

\* The Authorization header is a string, modelled as a sequence of atoms: a
\* space, a word without spaces, or a token string (which has no spaces).
Sp == [k |-> "space", w |-> " ", t |-> NoToken]

W(s) == [k |-> "word", w |-> s, t |-> NoToken]

J(tok) == [k |-> "jwt", w |-> "", t |-> tok]

RECURSIVE FirstSpace(_, _)
FirstSpace(s, i) ==
    IF i > Len(s) THEN 0
    ELSE IF s[i] = Sp THEN i
    ELSE FirstSpace(s, i + 1)

\* strings.SplitN(s, " ", 2): at most two parts, split at the first space.
SplitN2(s) ==
    LET i == FirstSpace(s, 1) IN
    IF i = 0 THEN <<s>>
    ELSE <<SubSeq(s, 1, i - 1), SubSeq(s, i + 1, Len(s))>>

\* jwtParse_NoSignature is a jwt.Parse that does not compare the signature.
\* jwt.Parse(tokenString, keyFunc) of jwt-go, read at time t: the string must
\* be a well-formed token, its algorithm a known one, its signature made
\* with the key; an "exp" claim that is a number is compared with the clock
\* (jwt-go: expired when now > exp), any other or absent "exp" is not
\* checked.  On a token that fails validation jwt.Parse returns the token
\* with the error.
jwtParse_NoSignature(s, key, t) ==
    IF ~(Len(s) = 1 /\ s[1].k = "jwt")
    THEN [err |-> TRUE, claims |-> NoToken]
    ELSE LET tok == s[1].t IN
         IF tok.alg \notin HmacAlgs THEN [err |-> TRUE, claims |-> tok]
         ELSE IF tok.exp # NoNum /\ t > tok.exp THEN [err |-> TRUE, claims |-> tok]
         ELSE [err |-> FALSE, claims |-> tok]

jwtParse(s, key, t) ==
    IF ~(Len(s) = 1 /\ s[1].k = "jwt")
    THEN [err |-> TRUE, claims |-> NoToken]
    ELSE LET tok == s[1].t IN
         IF tok.alg \notin HmacAlgs THEN [err |-> TRUE, claims |-> tok]
         ELSE IF tok.exp # NoNum /\ t > tok.exp THEN [err |-> TRUE, claims |-> tok]
         ELSE IF tok.sig # KeyBytes(key) THEN [err |-> TRUE, claims |-> tok]
         ELSE [err |-> FALSE, claims |-> tok]

\* A parseToken that does not compare the scheme with "Bearer".
parseToken_AnyScheme(hdr, key, t) ==
    IF hdr = <<>> THEN [err |-> TRUE, claims |-> NoToken, parsed |-> FALSE]
    ELSE LET parts == SplitN2(hdr) IN
         IF ~(Len(parts) = 2)
         THEN [err |-> TRUE, claims |-> NoToken, parsed |-> FALSE]
         ELSE LET r == jwtParse(parts[2], key, t) IN
              [err |-> r.err, claims |-> r.claims, parsed |-> TRUE]

\* parseToken: the result, and whether jwt.Parse was reached.
\* A parseToken that splits at every space and wants exactly two parts.
parseToken_ExactSplit(hdr, key, t) ==
    IF hdr = <<>> THEN [err |-> TRUE, claims |-> NoToken, parsed |-> FALSE]
    ELSE LET parts == SplitN2(hdr) IN
         IF ~( /\ Len(parts) = 2
               /\ parts[1] = <<W("Bearer")>>
               /\ parts[2] # <<>>
               /\ FirstSpace(parts[2], 1) = 0 )
         THEN [err |-> TRUE, claims |-> NoToken, parsed |-> FALSE]
         ELSE LET r == jwtParse(parts[2], key, t) IN
              [err |-> r.err, claims |-> r.claims, parsed |-> TRUE]

parseToken(hdr, key, t) ==
    IF hdr = <<>> THEN [err |-> TRUE, claims |-> NoToken, parsed |-> FALSE]
    ELSE LET parts == SplitN2(hdr) IN
         IF ~(Len(parts) = 2 /\ parts[1] = <<W("Bearer")>>)
         THEN [err |-> TRUE, claims |-> NoToken, parsed |-> FALSE]
         ELSE LET r == jwtParse(parts[2], key, t) IN
              [err |-> r.err, claims |-> r.claims, parsed |-> TRUE]

(***************************************************************************)
(* The configuration (the fields of JWTMiddleware) and the callbacks.      *)
(***************************************************************************)
\* The Authenticator of the model checks the password of a known user.
Authenticate(f, userId, password) ==
    f = "checkPassword" /\ userId \in Users /\ password = "secret"

\* The Authorizators of the model: the default one of MiddlewareFunc, which
\* permits everybody, and one that permits alice only.
Authorize(f, userId) ==
    CASE f = "permitAll" -> TRUE
      [] f = "onlyAlice" -> userId = "alice"
      [] OTHER -> FALSE

\* jwt.GetSigningMethod: nil for a name that is not registered.
KnownAlgs == HmacAlgs \cup {"RS256"}

\* token.SignedString(mw.Key): an HMAC method signs with any byte slice; the
\* RSA method cannot sign with the bytes of a shared secret.
SignError(alg, key) == alg \notin HmacAlgs

\* The configurations of the model: every field takes its zero value and
\* one or two others.  A configuration is the plain one, which sets every
\* field, with any Timeout and MaxRefresh, or the plain one with one other
\* field changed.
AllConfigs ==
    [Realm : {"", "api"},
     SigningAlgorithm : {"", "HS256", "RS256"},
     Key : {Nil, EmptyKey, "k1"},
     Timeout : {0, 1, 2},
     MaxRefresh : {0, 1, 2},
     Authenticator : {Nil, "checkPassword"},
     Authorizator : {Nil, "onlyAlice"},
     NeedPrompt : BOOLEAN]

PlainConfig ==
    [Realm |-> "api", SigningAlgorithm |-> "HS256", Key |-> "k1",
     Timeout |-> 1, MaxRefresh |-> 1, Authenticator |-> "checkPassword",
     Authorizator |-> "onlyAlice", NeedPrompt |-> FALSE]

Differing(m) == {f \in DOMAIN m : m[f] # PlainConfig[f]}

Configs ==
    {m \in AllConfigs :
       \/ Differing(m) \subseteq {"Timeout", "MaxRefresh"}
       \/ Cardinality(Differing(m)) \in {0, 1}}

\* MiddlewareFunc: log.Fatal ends the process at the first required field
\* that is missing; otherwise the defaults are written into the struct.
MiddlewareFunc(m) ==
    IF m.Realm = "" THEN [fatal |-> TRUE, mw |-> m]
    ELSE LET m1 == IF m.SigningAlgorithm = ""
                   THEN [m EXCEPT !.SigningAlgorithm = "HS256"] ELSE m IN
         IF m1.Key = Nil THEN [fatal |-> TRUE, mw |-> m1]
         ELSE LET m2 == IF m1.Timeout = 0
                        THEN [m1 EXCEPT !.Timeout = Hour] ELSE m1 IN
              IF m2.Authenticator = Nil THEN [fatal |-> TRUE, mw |-> m2]
              ELSE LET m3 == IF m2.Authorizator = Nil
                             THEN [m2 EXCEPT !.Authorizator = "permitAll"]
                             ELSE m2 IN
                   [fatal |-> FALSE, mw |-> m3]

(***************************************************************************)
(* Responses and the outcome of a request.                                 *)
(***************************************************************************)
NoResponse ==
    [status |-> 0, challenge |-> <<>>, error |-> "", token |-> NoToken]

\* writer.WriteJson(&map[string]string{"token": tokenString})
TokenResponse(tok) ==
    [status |-> 200, challenge |-> <<>>, error |-> "", token |-> tok]

\* An unauthorized that raises the status in both modes.
unauthorized_Always401(m) ==
    IF m.NeedPrompt
    THEN [status |-> 401, challenge |-> <<"Basic realm=", m.Realm>>,
          error |-> "Not Authorized", token |-> NoToken]
    ELSE [status |-> 401, challenge |-> <<>>,
          error |-> "Not Authorized", token |-> NoToken]

\* unauthorized: the response it writes.  rest.Error writes the status and
\* the JSON body {"Error": message}; WriteJson alone leaves the status at
\* 200.
unauthorized(m) ==
    IF m.NeedPrompt
    THEN [status |-> 401, challenge |-> <<"Basic realm=", m.Realm>>,
          error |-> "Not Authorized", token |-> NoToken]
    ELSE [status |-> 200, challenge |-> <<>>,
          error |-> "Not Authorized", token |-> NoToken]

\* What a request ended in: the unauthorized response, a token response, the
\* wrapped handler invoked with REMOTE_USER, or a panic of the goroutine.
Unauthorized(m) ==
    [kind |-> "unauthorized", resp |-> unauthorized(m), user |-> NoId]

Minted(tok) == [kind |-> "token", resp |-> TokenResponse(tok), user |-> NoId]

Invoked(id) == [kind |-> "handler", resp |-> NoResponse, user |-> id]

Panic == [kind |-> "panic", resp |-> NoResponse, user |-> NoId]

(***************************************************************************)
(* The handlers, as functions of the configuration, the request and the    *)
(* clock readings.                                                         *)
(***************************************************************************)
\* A middlewareImpl that tests the token jwt.Parse returned instead of its
\* error: jwt.Parse returns the token also when it fails to validate.
middlewareImpl_TokenNotNil(m, hdr, t) ==
    LET p == parseToken(hdr, m.Key, t) IN
    IF p.claims = NoToken THEN Unauthorized(m)
    ELSE IF p.claims.id \in {NoId, NumId} THEN Panic
    ELSE IF m.Authorizator = Nil THEN Panic
    ELSE IF ~Authorize(m.Authorizator, p.claims.id) THEN Unauthorized(m)
    ELSE Invoked(p.claims.id)

\* A middlewareImpl that does not ask the Authorizator.
middlewareImpl_NoAuthorizator(m, hdr, t) ==
    LET p == parseToken(hdr, m.Key, t) IN
    IF p.err THEN Unauthorized(m)
    ELSE IF p.claims.id \in {NoId, NumId} THEN Panic
    ELSE Invoked(p.claims.id)

\* middlewareImpl; t is the clock reading of jwt.Parse.
middlewareImpl(m, hdr, t) ==
    LET p == parseToken(hdr, m.Key, t) IN
    IF p.err THEN Unauthorized(m)
    ELSE IF p.claims.id \in {NoId, NumId} THEN Panic
    ELSE IF m.Authorizator = Nil THEN Panic
    ELSE IF ~Authorize(m.Authorizator, p.claims.id) THEN Unauthorized(m)
    ELSE Invoked(p.claims.id)

\* A LoginHandler that takes the id from the wrong field of the payload.
LoginHandler_IdFromPassword(m, body, t1, t2) ==
    IF body.bad THEN Unauthorized(m)
    ELSE IF m.Authenticator = Nil THEN Panic
    ELSE IF ~Authenticate(m.Authenticator, body.username, body.password)
    THEN Unauthorized(m)
    ELSE IF m.SigningAlgorithm \notin KnownAlgs THEN Panic
    ELSE LET iat == IF m.MaxRefresh # 0 THEN t2 ELSE NoNum
             tok == Token(body.password, t1 + m.Timeout, iat,
                          m.SigningAlgorithm, m.Key) IN
         IF SignError(m.SigningAlgorithm, m.Key) THEN Unauthorized(m)
         ELSE Minted(tok)

\* A LoginHandler that tells the client that it was the credentials.
LoginHandler_SaysWhy(m, body, t1, t2) ==
    IF body.bad THEN Unauthorized(m)
    ELSE IF m.Authenticator = Nil THEN Panic
    ELSE IF ~Authenticate(m.Authenticator, body.username, body.password)
    THEN [kind |-> "unauthorized",
          resp |-> [unauthorized(m) EXCEPT !.error = "Bad credentials"],
          user |-> NoId]
    ELSE IF m.SigningAlgorithm \notin KnownAlgs THEN Panic
    ELSE LET iat == IF m.MaxRefresh # 0 THEN t2 ELSE NoNum
             tok == Token(body.username, t1 + m.Timeout, iat,
                          m.SigningAlgorithm, m.Key) IN
         IF SignError(m.SigningAlgorithm, m.Key) THEN Unauthorized(m)
         ELSE Minted(tok)

\* A LoginHandler that does not ask the Authenticator.
LoginHandler_NoAuthenticator(m, body, t1, t2) ==
    IF body.bad THEN Unauthorized(m)
    ELSE IF m.SigningAlgorithm \notin KnownAlgs THEN Panic
    ELSE LET iat == IF m.MaxRefresh # 0 THEN t2 ELSE NoNum
             tok == Token(body.username, t1 + m.Timeout, iat,
                          m.SigningAlgorithm, m.Key) IN
         IF SignError(m.SigningAlgorithm, m.Key) THEN Unauthorized(m)
         ELSE Minted(tok)

\* LoginHandler; t1 is the clock reading of line 122, t2 that of line 124.
\* A LoginHandler that never sets orig_iat.
LoginHandler_NeverIat(m, body, t1, t2) ==
    IF body.bad THEN Unauthorized(m)
    ELSE IF m.Authenticator = Nil THEN Panic
    ELSE IF ~Authenticate(m.Authenticator, body.username, body.password)
    THEN Unauthorized(m)
    ELSE IF m.SigningAlgorithm \notin KnownAlgs THEN Panic
    ELSE LET tok == Token(body.username, t1 + m.Timeout, NoNum,
                          m.SigningAlgorithm, m.Key) IN
         IF SignError(m.SigningAlgorithm, m.Key) THEN Unauthorized(m)
         ELSE Minted(tok)

LoginHandler(m, body, t1, t2) ==
    IF body.bad THEN Unauthorized(m)
    ELSE IF m.Authenticator = Nil THEN Panic
    ELSE IF ~Authenticate(m.Authenticator, body.username, body.password)
    THEN Unauthorized(m)
    ELSE IF m.SigningAlgorithm \notin KnownAlgs THEN Panic
    ELSE LET iat == IF m.MaxRefresh # 0 THEN t2 ELSE NoNum
             tok == Token(body.username, t1 + m.Timeout, iat,
                          m.SigningAlgorithm, m.Key) IN
         IF SignError(m.SigningAlgorithm, m.Key) THEN Unauthorized(m)
         ELSE Minted(tok)

\* A RefreshHandler whose window ends one second early (<= for <).
RefreshHandler_ClosedWindow(m, hdr, t1, t2, t3) ==
    LET p == parseToken(hdr, m.Key, t1) IN
    IF p.err THEN Unauthorized(m)
    ELSE IF p.claims.orig_iat = NoNum THEN Panic
    ELSE IF p.claims.orig_iat <= t2 - m.MaxRefresh THEN Unauthorized(m)
    ELSE IF m.SigningAlgorithm \notin KnownAlgs THEN Panic
    ELSE LET tok == Token(p.claims.id, t3 + m.Timeout, p.claims.orig_iat,
                          m.SigningAlgorithm, m.Key) IN
         IF SignError(m.SigningAlgorithm, m.Key) THEN Unauthorized(m)
         ELSE Minted(tok)

\* A RefreshHandler that stamps the new token with the current time.
RefreshHandler_NewIat(m, hdr, t1, t2, t3) ==
    LET p == parseToken(hdr, m.Key, t1) IN
    IF p.err THEN Unauthorized(m)
    ELSE IF p.claims.orig_iat = NoNum THEN Panic
    ELSE IF p.claims.orig_iat < t2 - m.MaxRefresh THEN Unauthorized(m)
    ELSE IF m.SigningAlgorithm \notin KnownAlgs THEN Panic
    ELSE LET tok == Token(p.claims.id, t3 + m.Timeout, t2,
                          m.SigningAlgorithm, m.Key) IN
         IF SignError(m.SigningAlgorithm, m.Key) THEN Unauthorized(m)
         ELSE Minted(tok)

\* A RefreshHandler that copies exp from the presented token.
RefreshHandler_CopyExp(m, hdr, t1, t2, t3) ==
    LET p == parseToken(hdr, m.Key, t1) IN
    IF p.err THEN Unauthorized(m)
    ELSE IF p.claims.orig_iat = NoNum THEN Panic
    ELSE IF p.claims.orig_iat < t2 - m.MaxRefresh THEN Unauthorized(m)
    ELSE IF m.SigningAlgorithm \notin KnownAlgs THEN Panic
    ELSE LET tok == Token(p.claims.id, p.claims.exp, p.claims.orig_iat,
                          m.SigningAlgorithm, m.Key) IN
         IF SignError(m.SigningAlgorithm, m.Key) THEN Unauthorized(m)
         ELSE Minted(tok)

\* A RefreshHandler that rejects a malformed header only.
RefreshHandler_SkipVerify(m, hdr, t1, t2, t3) ==
    LET p == parseToken(hdr, m.Key, t1) IN
    IF ~p.parsed THEN Unauthorized(m)
    ELSE IF p.claims.orig_iat = NoNum THEN Panic
    ELSE IF p.claims.orig_iat < t2 - m.MaxRefresh THEN Unauthorized(m)
    ELSE IF m.SigningAlgorithm \notin KnownAlgs THEN Panic
    ELSE LET tok == Token(p.claims.id, t3 + m.Timeout, p.claims.orig_iat,
                          m.SigningAlgorithm, m.Key) IN
         IF SignError(m.SigningAlgorithm, m.Key) THEN Unauthorized(m)
         ELSE Minted(tok)

\* RefreshHandler; t1 is the clock reading of jwt.Parse, t2 that of line
\* 171, t3 that of line 178.
\* A RefreshHandler that takes the identity from the Authorization scheme
\* word instead of the verified token.
RefreshHandler_IdFromHeader(m, hdr, t1, t2, t3) ==
    LET p == parseToken(hdr, m.Key, t1) IN
    IF p.err THEN Unauthorized(m)
    ELSE IF p.claims.orig_iat = NoNum THEN Panic
    ELSE IF p.claims.orig_iat < t2 - m.MaxRefresh THEN Unauthorized(m)
    ELSE IF m.SigningAlgorithm \notin KnownAlgs THEN Panic
    ELSE LET tok == Token(hdr[1].w, t3 + m.Timeout, p.claims.orig_iat,
                          m.SigningAlgorithm, m.Key) IN
         IF SignError(m.SigningAlgorithm, m.Key) THEN Unauthorized(m)
         ELSE Minted(tok)

\* A RefreshHandler that extends the exp of the token it was given.
RefreshHandler_ExtendExp(m, hdr, t1, t2, t3) ==
    LET p == parseToken(hdr, m.Key, t1) IN
    IF p.err THEN Unauthorized(m)
    ELSE IF p.claims.orig_iat = NoNum THEN Panic
    ELSE IF p.claims.orig_iat < t2 - m.MaxRefresh THEN Unauthorized(m)
    ELSE IF m.SigningAlgorithm \notin KnownAlgs THEN Panic
    ELSE LET exp == IF p.claims.exp = NoNum THEN t3 + m.Timeout
                    ELSE p.claims.exp + m.Timeout
             tok == Token(p.claims.id, exp, p.claims.orig_iat,
                          m.SigningAlgorithm, m.Key) IN
         IF SignError(m.SigningAlgorithm, m.Key) THEN Unauthorized(m)
         ELSE Minted(tok)

RefreshHandler(m, hdr, t1, t2, t3) ==
    LET p == parseToken(hdr, m.Key, t1) IN
    IF p.err THEN Unauthorized(m)
    ELSE IF p.claims.orig_iat = NoNum THEN Panic
    ELSE IF p.claims.orig_iat < t2 - m.MaxRefresh THEN Unauthorized(m)
    ELSE IF m.SigningAlgorithm \notin KnownAlgs THEN Panic
    ELSE LET tok == Token(p.claims.id, t3 + m.Timeout, p.claims.orig_iat,
                          m.SigningAlgorithm, m.Key) IN
         IF SignError(m.SigningAlgorithm, m.Key) THEN Unauthorized(m)
         ELSE Minted(tok)

(***************************************************************************)
(* The requests of the model.                                              *)
(***************************************************************************)
\* The login payload: a body that does not decode, or a username and a
\* password.
BadBody == [bad |-> TRUE, username |-> "", password |-> ""]

Bodies ==
    {BadBody} \cup
    [bad : {FALSE}, username : Users, password : Passwords]

\* Token strings a client can hold that this middleware did not mint: one
\* signed with a key that is not the configured one, and two signed with
\* the configured secret by another issuer (an id that is not a string; no
\* exp and no orig_iat).
ForgedToken == Token("alice", MaxTime, 0, "HS256", "evil")

NumIdToken == Token(NumId, MaxTime, 0, "HS256", "k1")

NoExpToken == Token("bob", NoNum, NoNum, "HS256", "k1")

ForeignTokens == {NumIdToken, NoExpToken}

MintedTokens == {r.tok : r \in issued}

ClientTokens == MintedTokens \cup ForeignTokens \cup {ForgedToken}

\* The values of the Authorization header: "Bearer <token>" for every token
\* string the client holds, and values that are not of that form, with and
\* without a token string in them.
Bearer(tok) == <<W("Bearer"), Sp, J(tok)>>

OddHeaders ==
    {<<>>,
     <<W("Bearer")>>,
     <<W("Bearer"), Sp>>,
     <<W("Bearer"), Sp, W("garbage")>>,
     <<W("Basic"), Sp, J(NoExpToken)>>,
     <<J(NoExpToken)>>,
     <<W("Bearer"), Sp, J(NoExpToken), Sp, W("x")>>}

Headers == OddHeaders \cup {Bearer(tok) : tok \in ClientTokens}

NoRequest ==
    [op |-> "none", hdr |-> <<>>, body |-> BadBody, reads |-> <<>>,
     out |-> Panic]

\* The record of a minted token: who logged in and when for the session it
\* belongs to (the clock reading of line 124), and when it was minted (the
\* clock reading its exp was computed from).
Origins(tok) ==
    IF \E r \in issued : r.tok = tok
    THEN {[user |-> r.user, t0 |-> r.t0] : r \in {x \in issued : x.tok = tok}}
    ELSE {[user |-> "<foreign>", t0 |-> NoNum]}

Record(r) ==
    IF r \in issued THEN issued
    ELSE issued \cup {r}

(***************************************************************************)
(* The state machine.                                                      *)
(***************************************************************************)
Init ==
    /\ mw \in Configs
    /\ phase = "setup"
    /\ now = 0
    /\ issued = {}
    /\ last = NoRequest

\* The application wraps its handlers in the middleware, then serves.
Wrap ==
    /\ phase = "setup"
    /\ LET r == MiddlewareFunc(mw) IN
       /\ mw' = r.mw
       /\ phase' = IF r.fatal THEN "fatal" ELSE "gated"
    /\ UNCHANGED <<now, issued, last>>

\* The application routes LoginHandler and RefreshHandler only, and serves.
ServeOpen ==
    /\ phase = "setup"
    /\ phase' = "open"
    /\ UNCHANGED <<mw, now, issued, last>>

Serving == phase \in {"gated", "open"}

\* The server answers one request after the other: a request is taken when
\* the exchange before it is over.
Idle == Serving /\ last.op = "none"

\* The exchange is over; nothing of it is kept.
Close ==
    /\ last.op # "none"
    /\ last' = NoRequest
    /\ UNCHANGED <<mw, phase, now, issued>>

Tick ==
    /\ Idle
    /\ now < MaxTime
    /\ now' = now + 1
    /\ UNCHANGED <<mw, phase, issued, last>>

\* A request to a route behind the middleware.
Gate ==
    /\ Idle
    /\ phase = "gated"
    /\ \E hdr \in Headers :
         last' = [op |-> "gate", hdr |-> hdr, body |-> BadBody,
                  reads |-> <<now>>, out |-> middlewareImpl(mw, hdr, now)]
    /\ UNCHANGED <<mw, phase, now, issued>>

\* A LoginHandler that writes the default Timeout into the struct at the
\* first login instead of leaving the defaults to MiddlewareFunc.
Login_LazyDefault ==
    /\ Idle
    /\ \E body \in Bodies :
         LET m == IF mw.Timeout = 0 THEN [mw EXCEPT !.Timeout = Hour] ELSE mw
             out == LoginHandler(m, body, now, now) IN
         /\ last' = [op |-> "login", hdr |-> <<>>, body |-> body,
                     reads |-> <<now, now>>, out |-> out]
         /\ issued' = IF out.kind = "token"
                      THEN Record([tok |-> out.resp.token,
                                   user |-> body.username, t0 |-> now])
                      ELSE issued
         /\ Cardinality(issued') <= MaxIssued
         /\ mw' = m
    /\ UNCHANGED <<phase, now>>

\* A request to LoginHandler.
Login ==
    /\ Idle
    /\ \E body \in Bodies, t2 \in {now, now + 1} :
         LET out == LoginHandler(mw, body, now, t2) IN
         /\ t2 <= MaxTime
         /\ t2 # now => out.kind = "token" /\ mw.MaxRefresh # 0
         /\ last' = [op |-> "login", hdr |-> <<>>, body |-> body,
                     reads |-> <<now, t2>>, out |-> out]
         /\ issued' = IF out.kind = "token"
                      THEN Record([tok |-> out.resp.token,
                                   user |-> body.username, t0 |-> t2])
                      ELSE issued
         /\ Cardinality(issued') <= MaxIssued
         /\ now' = t2
    /\ UNCHANGED <<mw, phase>>

\* A request to RefreshHandler.
Refresh ==
    /\ Idle
    /\ \E hdr \in Headers, t2 \in {now, now + 1}, t3 \in {now, now + 1} :
         LET out == RefreshHandler(mw, hdr, now, t2, t3) IN
         /\ t2 <= t3
         /\ t3 <= MaxTime
         /\ t2 # now => RefreshHandler(mw, hdr, now, now, now).kind # "panic"
                         /\ ~parseToken(hdr, mw.Key, now).err
         /\ t3 # t2 => out.kind = "token"
         /\ last' = [op |-> "refresh", hdr |-> hdr, body |-> BadBody,
                     reads |-> <<now, t2, t3>>, out |-> out]
         /\ \E o \in Origins(parseToken(hdr, mw.Key, now).claims) :
              issued' = IF out.kind = "token"
                        THEN Record([tok |-> out.resp.token, user |-> o.user,
                                     t0 |-> o.t0])
                        ELSE issued
         /\ Cardinality(issued') <= MaxIssued
         /\ now' = t3
    /\ UNCHANGED <<mw, phase>>

Next == Wrap \/ ServeOpen \/ Tick \/ Gate \/ Login \/ Refresh \/ Close

Spec == Init /\ [][Next]_vars

(***************************************************************************)
(* What the claims speak of, stated without the handlers.                  *)
(***************************************************************************)
\* Bearer extraction succeeds: the value starts with the word Bearer and a
\* space.
Extracted(h) == Len(h) >= 2 /\ h[1] = W("Bearer") /\ h[2] = Sp

\* The value is "Bearer <token>" and the token verifies under the key at
\* time t: a known algorithm, a signature made with the key, and an exp, if
\* it has one, that the clock has not passed.
Verifies(h, key, t) ==
    /\ Len(h) = 3
    /\ Extracted(h)
    /\ h[3].k = "jwt"
    /\ h[3].t.alg \in HmacAlgs
    /\ h[3].t.sig = KeyBytes(key)
    /\ (h[3].t.exp = NoNum \/ t <= h[3].t.exp)

IsString(id) == id \notin {NoId, NumId}

\* The request ended in the unauthorized response and nothing else: the
\* wrapped handler was not invoked and no token was written.
Rejected ==
    /\ last.out.kind = "unauthorized"
    /\ last.out.resp = unauthorized(mw)
    /\ last.out.resp.token = NoToken
    /\ last.out.user = NoId

\* The records of the sessions that began with a login.
Sessions == {r \in issued : r.user \in Users}

(***************************************************************************)
(* C1.  The Auth Gate invokes the wrapped handler only if bearer           *)
(* extraction succeeded, the token verified under the configured key and   *)
(* the Authorizator returned true for the token's id; whenever one of the  *)
(* three fails, the unauthorized response is written and the wrapped       *)
(* handler is not invoked.                                                 *)
(***************************************************************************)
C1_GateOnlyIfAuthorized ==
    last.op = "gate" =>
      LET h == last.hdr
          t == last.reads[1] IN
      /\ last.out.kind = "handler" =>
           /\ Extracted(h)
           /\ Verifies(h, mw.Key, t)
           /\ IsString(h[3].t.id)
           /\ Authorize(mw.Authorizator, h[3].t.id)
           /\ last.out.user = h[3].t.id
      /\ ~Extracted(h) => Rejected
      /\ ~Verifies(h, mw.Key, t) => Rejected
      /\ ( /\ Verifies(h, mw.Key, t)
           /\ IsString(h[3].t.id)
           /\ ~Authorize(mw.Authorizator, h[3].t.id) ) => Rejected

\* A verified, unexpired token of a login whose identity the Authorizator
\* rejects was turned away.
C1_Witness ==
    /\ last.op = "gate"
    /\ Verifies(last.hdr, mw.Key, last.reads[1])
    /\ last.hdr[3].t \in {r.tok : r \in Sessions}
    /\ ~Authorize(mw.Authorizator, last.hdr[3].t.id)
    /\ Rejected

(***************************************************************************)
(* C2.  A token returned by a login of user u, presented to the gate as    *)
(* "Authorization: Bearer T" before it expires, with an Authorizator that  *)
(* permits u, invokes the wrapped handler with REMOTE_USER = u.            *)
(***************************************************************************)
C2_LoginThenGate ==
    last.op = "gate" =>
      \A r \in Sessions :
        ( /\ last.hdr = Bearer(r.tok)
          /\ last.reads[1] <= r.tok.exp
          /\ Authorize(mw.Authorizator, r.user) )
        => /\ last.out.kind = "handler"
           /\ last.out.user = r.user

\* Bob logged in, time passed, and his token took him through the gate.
C2_Witness ==
    /\ last.op = "gate"
    /\ last.out.kind = "handler"
    /\ last.out.user = "bob"
    /\ \E r \in Sessions :
         /\ last.hdr = Bearer(r.tok)
         /\ r.user = "bob"
         /\ last.reads[1] > r.t0

C4_RefreshWindow ==
    (last.op = "refresh" /\ mw.MaxRefresh # 0) =>
      \A r \in Sessions :
        ( /\ last.hdr = Bearer(r.tok)
          /\ Verifies(last.hdr, mw.Key, last.reads[1]) )
        => /\ r.t0 < last.reads[2] - mw.MaxRefresh => Rejected
           /\ last.reads[2] = r.t0 + mw.MaxRefresh =>
                /\ last.out.kind = "token"
                /\ last.out.resp.token # NoToken
                /\ last.out.resp.token \in MintedTokens

\* An unexpired token was refused one second after the window closed.
C4_Witness ==
    /\ last.op = "refresh"
    /\ mw.MaxRefresh # 0
    /\ \E r \in Sessions :
         /\ last.hdr = Bearer(r.tok)
         /\ Verifies(last.hdr, mw.Key, last.reads[1])
         /\ last.reads[2] = r.t0 + mw.MaxRefresh + 1
    /\ Rejected

\* A token was refreshed in the last second of the window.
C4_WitnessLastMoment ==
    /\ last.op = "refresh"
    /\ \E r \in Sessions :
         /\ last.hdr = Bearer(r.tok)
         /\ last.reads[2] = r.t0 + mw.MaxRefresh
         /\ last.reads[2] > r.t0
    /\ last.out.kind = "token"

(***************************************************************************)
(* C5.  Where refresh is enabled, every token of a session, the one of the *)
(* login and those of any refreshes of any token of the session, has       *)
(* orig_iat equal to the time of the login.                                *)
(***************************************************************************)
C5_IssuedAtCarried ==
    mw.MaxRefresh # 0 =>
      \A r \in Sessions : r.tok.orig_iat = r.t0

\* A session holds a token that a refresh minted after the login.
C5_Witness ==
    \E r \in Sessions :
      /\ r.tok.exp > r.t0 + mw.Timeout
      /\ r.tok.orig_iat = r.t0

(***************************************************************************)
(* C6.  Every token minted by LoginHandler or RefreshHandler has exp equal *)
(* to the time of the mint (the clock reading of line 122 or 178) plus the *)
(* configured Timeout.                                                     *)
(***************************************************************************)
C6_ExpRecomputed ==
    last.out.kind = "token" =>
      /\ last.op = "login" =>
           last.out.resp.token.exp = last.reads[1] + mw.Timeout
      /\ last.op = "refresh" =>
           last.out.resp.token.exp = last.reads[3] + mw.Timeout

\* A refresh minted a token later than the exp computation of the token it
\* was given.
C6_Witness ==
    /\ last.op = "refresh"
    /\ last.out.kind = "token"
    /\ last.hdr[3].t \in MintedTokens
    /\ last.out.resp.token.exp > last.hdr[3].t.exp

(***************************************************************************)
(* C7.  The maximum validity timespan of a session is MaxRefresh +         *)
(* Timeout: no token of a session that began at t0 has exp greater than    *)
(* t0 + MaxRefresh + Timeout, and after that time neither the gate nor     *)
(* RefreshHandler accepts a token of the session.                          *)
(***************************************************************************)
C7_MaxValidity ==
    /\ \A r \in Sessions :
         r.tok.exp <= r.t0 + mw.MaxRefresh + mw.Timeout
    /\ \A r \in Sessions :
         ( /\ last.op \in {"gate", "refresh"}
           /\ last.hdr = Bearer(r.tok)
           /\ last.reads[1] > r.t0 + mw.MaxRefresh + mw.Timeout )
         => last.out.kind \notin {"handler", "token"}

(***************************************************************************)
(* C8.  RefreshHandler, given a token that does not verify (expired, wrong *)
(* signature, malformed, or a missing or malformed header), writes the     *)
(* unauthorized response and mints no token, also when orig_iat is inside  *)
(* the refresh window.                                                     *)
(***************************************************************************)
C8_NoRefreshUnverified ==
    ( /\ last.op = "refresh"
      /\ ~Verifies(last.hdr, mw.Key, last.reads[1]) )
    => Rejected

\* An expired token of a session whose refresh window was still open was
\* refused.
C8_Witness ==
    /\ last.op = "refresh"
    /\ \E r \in Sessions :
         /\ last.hdr = Bearer(r.tok)
         /\ last.reads[1] > r.tok.exp
         /\ r.tok.orig_iat # NoNum
         /\ r.tok.orig_iat >= last.reads[1] - mw.MaxRefresh
    /\ Rejected

(***************************************************************************)
(* C9.  An Authorization header that is missing or empty, whose scheme is  *)
(* not Bearer, or that has no token segment after the scheme, is rejected  *)
(* by parseToken with an error and jwt.Parse is not called.                *)
(***************************************************************************)
MissingHeader(h) == h = <<>>

WrongScheme(h) == h # <<>> /\ h[1] # W("Bearer")

NoTokenSegment(h) == h = <<W("Bearer")>>

C9_MalformedHeader ==
    ( /\ last.op \in {"gate", "refresh"}
      /\ \/ MissingHeader(last.hdr)
         \/ WrongScheme(last.hdr)
         \/ NoTokenSegment(last.hdr) )
    => /\ parseToken(last.hdr, mw.Key, last.reads[1]).err
       /\ ~parseToken(last.hdr, mw.Key, last.reads[1]).parsed
       /\ Rejected

\* A token that verifies was sent under the scheme Basic and turned away.
C9_Witness ==
    /\ last.op = "gate"
    /\ last.hdr = <<W("Basic"), Sp, J(NoExpToken)>>
    /\ Verifies(Bearer(NoExpToken), mw.Key, last.reads[1])
    /\ Authorize(mw.Authorizator, NoExpToken.id)
    /\ Rejected

(***************************************************************************)
(* C10.  LoginHandler returns a token only when the body decoded and the   *)
(* Authenticator returned true for (username, password), and the token     *)
(* carries id = username; on a decoding error, on the Authenticator        *)
(* returning false and on a signing error it writes the unauthorized       *)
(* response and no token.                                                  *)
(***************************************************************************)
C10_LoginOnlyIfAuthenticated ==
    last.op = "login" =>
      LET b == last.body IN
      /\ last.out.kind = "token" =>
           /\ ~b.bad
           /\ Authenticate(mw.Authenticator, b.username, b.password)
           /\ last.out.resp.token.id = b.username
           /\ last.out.resp.token \in MintedTokens
      /\ b.bad => Rejected
      /\ ( /\ ~b.bad
           /\ mw.Authenticator # Nil
           /\ ~Authenticate(mw.Authenticator, b.username, b.password) )
         => Rejected
      /\ ( /\ ~b.bad
           /\ Authenticate(mw.Authenticator, b.username, b.password)
           /\ mw.SigningAlgorithm = "RS256" )
         => Rejected

\* A login with a wrong password was turned away.
C10_Witness ==
    /\ last.op = "login"
    /\ ~last.body.bad
    /\ last.body.password = "wrong"
    /\ mw.Authenticator # Nil
    /\ Rejected

(***************************************************************************)
(* C11.  For a fixed configuration the response written on failure is the  *)
(* same whatever the cause and whichever of the Auth Gate, LoginHandler    *)
(* and RefreshHandler wrote it: the response of a request that failed      *)
(* equals the response of every other request that would fail now.         *)
(***************************************************************************)
\* A request that ends in the unauthorized response writes this response.
SameDenial(out, resp) == out.kind = "unauthorized" => out.resp = resp

C11_OneUnauthorizedResponse ==
    last.out.kind = "unauthorized" =>
      /\ \A h \in Headers :
           /\ SameDenial(middlewareImpl(mw, h, now), last.out.resp)
           /\ SameDenial(RefreshHandler(mw, h, now, now, now), last.out.resp)
      /\ \A b \in Bodies :
           SameDenial(LoginHandler(mw, b, now, now), last.out.resp)

\* The gate turned away a verified token for its identity, while a login
\* with a wrong password, a request without header and a refresh past the
\* window fail as well.
C11_Witness ==
    /\ last.op = "gate"
    /\ last.out.kind = "unauthorized"
    /\ Verifies(last.hdr, mw.Key, last.reads[1])
    /\ ~Authorize(mw.Authorizator, last.hdr[3].t.id)
    /\ \E b \in Bodies : LoginHandler(mw, b, now, now).kind = "unauthorized"
    /\ middlewareImpl(mw, <<>>, now).kind = "unauthorized"
    /\ \E r \in Sessions :
         /\ Verifies(Bearer(r.tok), mw.Key, now)
         /\ r.tok.orig_iat # NoNum
         /\ r.tok.orig_iat < now - mw.MaxRefresh
         /\ RefreshHandler(mw, Bearer(r.tok), now, now, now).kind = "unauthorized"

(***************************************************************************)
(* C12.  Configuration validation is fatal and happens before serving: no  *)
(* request is processed by the Auth Gate, LoginHandler or RefreshHandler   *)
(* under a configuration whose Realm is empty, whose Key is missing or     *)
(* empty, or whose Authenticator is missing.                               *)
(***************************************************************************)
ValidConfig(m) ==
    /\ m.Realm # ""
    /\ KeyBytes(m.Key) # ""
    /\ m.Authenticator # Nil

C12_ValidatedBeforeServing ==
    last.op # "none" => ValidConfig(mw)

\* What MiddlewareFunc does establish for the requests behind the gate: the
\* fields it tests, as it tests them.
C12_GateValidated ==
    last.op = "gate" =>
      /\ mw.Realm # ""
      /\ mw.Key # Nil
      /\ mw.Authenticator # Nil

\* The gate answered a request under a Key without bytes.
C12_EmptyKeyServed ==
    ~(last.op = "gate" /\ mw.Key = EmptyKey)

C14_WitnessSilent ==
    /\ ~mw.NeedPrompt
    /\ last.out.kind = "unauthorized"
    /\ last.out.resp.status = 200

(***************************************************************************)
(* C15.  As claimed: in the Auth Gate a token that verifies (signature     *)
(* made with the key, not expired) but whose id claim is absent or not a   *)
(* string is rejected like a malformed token: the unauthorized response is *)
(* written, the wrapped handler is not invoked, and the request ends in a  *)
(* normal rejected state rather than a crash.                              *)
(***************************************************************************)
C15_BadIdRejected ==
    ( /\ last.op = "gate"
      /\ Verifies(last.hdr, mw.Key, last.reads[1])
      /\ ~IsString(last.hdr[3].t.id) )
    => Rejected

\* What the gate does with such a token: the type assertion of line 87
\* panics, nothing is written and the wrapped handler is not invoked.
C15_BadIdPanics ==
    ( /\ last.op = "gate"
      /\ Verifies(last.hdr, mw.Key, last.reads[1])
      /\ ~IsString(last.hdr[3].t.id) )
    => last.out = Panic

\* The value is exactly two space-separated tokens, the first of them the
\* word Bearer.
ExactlyTwoTokens(h) ==
    /\ Len(h) = 3
    /\ h[1] = W("Bearer")
    /\ h[2] = Sp
    /\ h[3] # Sp

(***************************************************************************)
(* C16.  As claimed: bearer extraction accepts an Authorization value only *)
(* if it is exactly two space-separated tokens whose first is literally    *)
(* Bearer; every other value, one with more than two tokens or Bearer, a   *)
(* space and an empty token included, is rejected at extraction, before    *)
(* the token is parsed.                                                    *)
(***************************************************************************)
C16_Original ==
    last.op \in {"gate", "refresh"} =>
      /\ parseToken(last.hdr, mw.Key, last.reads[1]).parsed
           => ExactlyTwoTokens(last.hdr)
      /\ ~ExactlyTwoTokens(last.hdr) => Rejected

(***************************************************************************)
(* C16, amended.  Bearer extraction splits the value at its first space    *)
(* only: it hands the rest to jwt.Parse exactly when the value has a       *)
(* space and the part before the first space is literally Bearer, and      *)
(* rejects every other value at extraction.  A value with more than two    *)
(* tokens, or Bearer followed by a space and nothing, passes extraction    *)
(* and is rejected by jwt.Parse as a malformed token; either way every     *)
(* value that is not exactly two tokens ends in the unauthorized response. *)
(***************************************************************************)
C16_SplitAtFirstSpace ==
    last.op \in {"gate", "refresh"} =>
      LET p == parseToken(last.hdr, mw.Key, last.reads[1]) IN
      /\ p.parsed <=> Extracted(last.hdr)
      /\ ~Extracted(last.hdr) => Rejected
      /\ ~ExactlyTwoTokens(last.hdr) => (p.err /\ Rejected)

\* A value of three tokens passed extraction and was rejected by jwt.Parse.
C16_Witness ==
    /\ last.op = "gate"
    /\ Len(last.hdr) = 5
    /\ Extracted(last.hdr)
    /\ parseToken(last.hdr, mw.Key, last.reads[1]).parsed
    /\ Rejected

\* Bearer, a space and an empty token passed extraction and was rejected by
\* jwt.Parse.
C16_WitnessEmptyToken ==
    /\ last.op = "refresh"
    /\ last.hdr = <<W("Bearer"), Sp>>
    /\ parseToken(last.hdr, mw.Key, last.reads[1]).parsed
    /\ Rejected

(***************************************************************************)
(* C17.  orig_iat is present only when refresh is enabled: a token minted  *)
(* by LoginHandler carries orig_iat, equal to the time of the login (the   *)
(* clock reading of line 124), if and only if MaxRefresh is non-zero; so   *)
(* under a configuration with MaxRefresh non-zero every token minted by    *)
(* LoginHandler or RefreshHandler carries a numeric orig_iat, and          *)
(* RefreshHandler never reads a missing orig_iat (the panic of line 169)   *)
(* from a token this configuration minted.                                 *)
(***************************************************************************)
C17_OrigIatIffRefresh ==
    /\ (last.op = "login" /\ last.out.kind = "token") =>
         LET tok == last.out.resp.token IN
         /\ tok.orig_iat # NoNum <=> mw.MaxRefresh # 0
         /\ mw.MaxRefresh # 0 => tok.orig_iat = last.reads[2]
    /\ mw.MaxRefresh # 0 =>
         /\ \A r \in issued : r.tok.orig_iat \in 0..MaxTime
         /\ \A tok \in MintedTokens :
              (last.op = "refresh" /\ last.hdr = Bearer(tok))
              => last.out.kind # "panic"

\* With refresh enabled a token of a login was refreshed later, and the
\* new token carries the orig_iat that the handler read from it.
C17_Witness ==
    /\ mw.MaxRefresh # 0
    /\ last.op = "refresh"
    /\ last.out.kind = "token"
    /\ \E r \in Sessions :
         /\ last.hdr = Bearer(r.tok)
         /\ last.reads[1] > r.t0
         /\ last.out.resp.token.orig_iat = r.t0

\* With refresh disabled a login minted a token without orig_iat.
C17_WitnessDisabled ==
    /\ mw.MaxRefresh = 0
    /\ last.op = "login"
    /\ last.out.kind = "token"
    /\ last.out.resp.token.orig_iat = NoNum

(***************************************************************************)
(* C18.  As claimed: every successful RefreshHandler call returns a token  *)
(* string different from the one presented.                                *)
(***************************************************************************)
C18_Original ==
    (last.op = "refresh" /\ last.out.kind = "token") =>
      last.out.resp.token # last.hdr[3].t

(***************************************************************************)
(* C18, amended.  A successful refresh signs a token built anew from the   *)
(* id and orig_iat of the presented token and exp = now + Timeout, and     *)
(* leaves the presented token as it was: the new string differs from the   *)
(* presented one exactly when that exp or the configured algorithm differs *)
(* from the presented token's (it is the same string when the refresh      *)
(* computes the exp the presented token already has), and after the        *)
(* refresh the gate still accepts the presented token until its own exp.   *)
(***************************************************************************)
C18_RefreshMintsAnew ==
    (last.op = "refresh" /\ last.out.kind = "token") =>
      LET old == last.hdr[3].t
          new == last.out.resp.token IN
      /\ new.id = old.id
      /\ new.orig_iat = old.orig_iat
      /\ new.exp = last.reads[3] + mw.Timeout
      /\ new = old <=> ( /\ old.exp = last.reads[3] + mw.Timeout
                         /\ old.alg = mw.SigningAlgorithm )
      /\ (old.exp = NoNum \/ now <= old.exp) =>
           /\ ~parseToken(last.hdr, mw.Key, now).err
           /\ parseToken(last.hdr, mw.Key, now).claims = old
           /\ (phase = "gated" /\ IsString(old.id)
               /\ Authorize(mw.Authorizator, old.id)) =>
                middlewareImpl(mw, last.hdr, now) = Invoked(old.id)

\* A token of a login was refreshed into a different string, and the old
\* one is still good for the gate.
C18_Witness ==
    /\ phase = "gated"
    /\ last.op = "refresh"
    /\ last.out.kind = "token"
    /\ \E r \in Sessions : last.hdr = Bearer(r.tok)
    /\ last.out.resp.token # last.hdr[3].t
    /\ now <= last.hdr[3].t.exp
    /\ middlewareImpl(mw, last.hdr, now) = Invoked(last.hdr[3].t.id)

\* A token of a login was refreshed in the second of the login, and the
\* refresh returned the same string.
C18_WitnessSameString ==
    /\ last.op = "refresh"
    /\ last.out.kind = "token"
    /\ \E r \in Sessions : last.hdr = Bearer(r.tok) /\ r.t0 = last.reads[3]
    /\ last.out.resp.token = last.hdr[3].t

(***************************************************************************)
(* C19.  Refresh preserves identity: for a login followed by any number of *)
(* successful refreshes, the id claim of every token of the chain equals   *)
(* the username of the login, and the id of the token a refresh returns is *)
(* the id of the verified token it was given.                              *)
(***************************************************************************)
C19_IdentityPreserved ==
    /\ \A r \in Sessions : r.tok.id = r.user
    /\ (last.op = "refresh" /\ last.out.kind = "token") =>
         /\ Verifies(last.hdr, mw.Key, last.reads[1])
         /\ last.out.resp.token.id = last.hdr[3].t.id

\* Bob's session holds the token of his login and a token that a refresh
\* of it minted later.
C19_Witness ==
    /\ last.op = "refresh"
    /\ last.out.kind = "token"
    /\ \E r \in Sessions :
         /\ r.user = "bob"
         /\ r.tok = last.out.resp.token
         /\ r.tok.exp > r.t0 + mw.Timeout
         /\ r.tok.id = "bob"
    /\ \E r \in Sessions :
         /\ r.user = "bob"
         /\ last.hdr = Bearer(r.tok)
         /\ r.tok # last.out.resp.token

(***************************************************************************)
(* The program among clients that cannot forge tokens: the only token      *)
(* strings signed with the configured key that a client can put behind     *)
(* "Bearer " are those that LoginHandler or RefreshHandler returned.  The  *)
(* token signed with another key and the values that are not of the form   *)
(* "Bearer <token>" remain.                                                *)
(***************************************************************************)
OwnHeaders == Headers \ {Bearer(tok) : tok \in ForeignTokens}

GateOwn == Gate /\ last'.hdr \in OwnHeaders

RefreshOwn == Refresh /\ last'.hdr \in OwnHeaders

NextOwn == Wrap \/ ServeOpen \/ Tick \/ GateOwn \/ Login \/ RefreshOwn \/ Close

SpecOwn == Init /\ [][NextOwn]_vars

(***************************************************************************)
(* C20.  Provenance of accepted identities, among clients that cannot      *)
(* forge tokens: whenever the gate invokes the wrapped handler with        *)
(* REMOTE_USER = u, or RefreshHandler mints a token with id = u, the       *)
(* presented token belongs to a session that began with a LoginHandler     *)
(* call in which the Authenticator returned true for username u; every     *)
(* minted token belongs to such a session.                                 *)
(***************************************************************************)
C20_Provenance ==
    /\ \A r \in issued :
         /\ r.user \in Users
         /\ r.tok.id = r.user
         /\ mw.Authenticator # Nil
         /\ \E pw \in Passwords : Authenticate(mw.Authenticator, r.user, pw)
    /\ last.out.kind = "handler" =>
         \E r \in Sessions :
           /\ r.user = last.out.user
           /\ last.hdr = Bearer(r.tok)
    /\ (last.op = "refresh" /\ last.out.kind = "token") =>
         \E r \in Sessions :
           /\ r.user = last.out.resp.token.id
           /\ last.hdr = Bearer(r.tok)
    /\ (last.op = "login" /\ last.out.kind = "token") =>
         /\ Authenticate(mw.Authenticator, last.body.username,
                         last.body.password)
         /\ last.out.resp.token.id = last.body.username

\* Alice logged in and bob did not; alice's token took her through the
\* gate after a token signed with another key had been refused.
C20_Witness ==
    /\ last.op = "gate"
    /\ last.out.kind = "handler"
    /\ last.out.user = "alice"
    /\ Sessions # {}
    /\ \A r \in Sessions : r.user = "alice"
    /\ last.reads[1] > 0

\* A refresh minted a token for bob from the token of bob's login.
C20_WitnessRefresh ==
    /\ last.op = "refresh"
    /\ last.out.kind = "token"
    /\ last.out.resp.token.id = "bob"
    /\ \E r \in Sessions : r.user = "bob" /\ r.t0 < last.reads[3]

\* A token for alice that was signed with another key was refused.
C20_WitnessForged ==
    /\ last.op = "gate"
    /\ last.hdr = Bearer(ForgedToken)
    /\ Sessions = {}
    /\ Rejected
====
